---- MODULE Spec2Model ----
(***************************************************************************)
(* Model of the sdl_wrapper headers: the three init/quit guards (SDL,      *)
(* SDL_IMG, SDLTTF), the five handle-owning wrappers (SDLSurface,          *)
(* SDLTexture, SDLRenderer, SDLWindow, TTFFont), their factories and their *)
(* forwarding methods.  The native library is the environment: each native *)
(* call returns a result drawn from the values its C signature allows, and *)
(* on failure leaves a last-error text that the *_GetError call reads.     *)
(***************************************************************************)
EXTENDS Integers, Sequences, FiniteSets, Bags, TLC

\* ---------------------------------------------------------------- bounds
MaxSlots == 3        \* wrapper objects alive at the same time
MaxHandles == 3      \* native handles the library hands out in one run
MaxGuardInits == 1   \* successful init calls per subsystem in one run
MaxLockDepth == 2    \* nesting depth of the native surface lock counter
MaxRelease == 2      \* release calls recorded per native handle

\* ------------------------------------------------------ program constants
Null == 0            \* nullptr
IMG_INIT_PNG == 2    \* the flag SDL_IMG() asks for

Handles == 1..MaxHandles
Subsys == {"SDL", "IMG", "TTF"}
ErrTexts == {"file not found", "out of memory"}
IntResults == {0, -1}          \* what an int-returning native call reports
ImgInitResults == 0..3         \* bit masks IMG_Init can return (JPG = 1, PNG = 2)

VARIABLES
    alive,    \* alive[g]: guard objects of subsystem g currently alive
    inits,    \* inits[g]: init calls of g that reported success
    quits,    \* quits[g]: calls made to g's shutdown routine
    objs,     \* the bag of wrapper objects alive, each [type, h] with h its stored pointer
    handed,   \* native handles 1..handed have been handed out by the library
    rel,      \* rel[h]: calls of the release routine with argument h (h = Null included)
    locked,   \* locked[h]: native lock counter of surface h
    winSurf,  \* winSurf[w]: the surface the native library keeps for window w
    last      \* the outcome of the last call made on the wrapper API

vars == <<alive, inits, quits, objs, handed, rel, locked, winSurf, last>>
guardVars == <<alive, inits, quits>>
resVars == <<objs, handed, rel, locked, winSurf>>

NoObj == [type |-> "None", h |-> Null]

\* ------------------------------------------------------------ call outcome
\* A call that returned normally: op, the native result it saw, the slot of the
\* wrapper it returned or acted on (NoObj = none) and the value it returned.
\* out is what the call left behind besides: the values a native call wrote through
\* its output parameters, the handle an assignment replaced (<<>> = nothing).
Returned(op, nret, obj, val) ==
    [op |-> op, status |-> "ok", nret |-> nret, obj |-> obj, val |-> val,
     msg |-> "", err |-> "", out |-> <<>>]

\* Variant of RuntimeError that drops the library's text.
RuntimeError_NoDetail(desc, err) == desc

\* std::runtime_error(desc + X_GetError()): the message is the concatenation of the
\* fixed description and the text the native library holds at that moment.
RuntimeError(desc, err) == desc \o err

\* A call that threw: err is what the library's GetError returns at the throw.
Thrown(op, nret, msg, err) ==
    [op |-> op, status |-> "throw", nret |-> nret, obj |-> NoObj, val |-> "none",
     msg |-> msg, err |-> err, out |-> <<>>]

\* a & b on non-negative integers
RECURSIVE BitAnd(_, _)
BitAnd(a, b) ==
    IF a = 0 \/ b = 0 THEN 0
    ELSE (IF a % 2 = 1 /\ b % 2 = 1 THEN 1 ELSE 0) + 2 * BitAnd(a \div 2, b \div 2)

Init ==
    /\ alive = [g \in Subsys |-> 0]
    /\ inits = [g \in Subsys |-> 0]
    /\ quits = [g \in Subsys |-> 0]
    /\ objs = EmptyBag
    /\ handed = 0
    /\ rel = [h \in 0..MaxHandles |-> 0]
    /\ locked = [h \in Handles |-> 0]
    /\ winSurf = [h \in Handles |-> Null]
    /\ last = Returned("none", 0, NoObj, "none")

\* ------------------------------------------------------------------ guards
\* A guard whose constructor returned normally: the object exists.
GuardConstructed(g, op, nret) ==
    /\ inits[g] < MaxGuardInits
    /\ alive' = [alive EXCEPT ![g] = @ + 1]
    /\ inits' = [inits EXCEPT ![g] = @ + 1]
    /\ quits' = quits
    /\ last' = Returned(op, nret, NoObj, "none")

\* Variant of GuardFailed in which the object counts as constructed although its
\* constructor threw, so that its destructor will run.
GuardFailed_DestructorRuns(g, op, nret, msg, err) ==
    /\ alive' = [alive EXCEPT ![g] = @ + 1]
    /\ UNCHANGED <<inits, quits>>
    /\ last' = Thrown(op, nret, msg, err)

\* A guard whose constructor threw: no object, so its destructor never runs.
GuardFailed(g, op, nret, msg, err) ==
    /\ UNCHANGED guardVars
    /\ last' = Thrown(op, nret, msg, err)

\* ~SDL / ~SDL_IMG / ~SDLTTF: unconditionally the shutdown call.
GuardDestroyed(g, op) ==
    /\ alive[g] > 0
    /\ alive' = [alive EXCEPT ![g] = @ - 1]
    /\ quits' = [quits EXCEPT ![g] = @ + 1]
    /\ inits' = inits
    /\ last' = Returned(op, 0, NoObj, "none")

\* SDL::SDL(): SDL_Init(SDL_INIT_VIDEO) < 0 throws "SDL uninitialized".
SDL_ctor ==
    \E r \in IntResults, e \in ErrTexts :
        /\ IF r < 0
           THEN GuardFailed("SDL", "SDL", r, "SDL uninitialized", e)
           ELSE GuardConstructed("SDL", "SDL", r)
        /\ UNCHANGED resVars

SDL_dtor == GuardDestroyed("SDL", "~SDL") /\ UNCHANGED resVars

\* SDL_IMG::SDL_IMG(): !(IMG_Init(flags) & flags) throws.
SDL_IMG_ctor ==
    \E r \in ImgInitResults, e \in ErrTexts :
        /\ IF BitAnd(r, IMG_INIT_PNG) = 0
           THEN GuardFailed("IMG", "SDL_IMG", r,
                    RuntimeError("IMG_Init failed! IMG_GetError: ", e), e)
           ELSE GuardConstructed("IMG", "SDL_IMG", r)
        /\ UNCHANGED resVars

SDL_IMG_dtor == GuardDestroyed("IMG", "~SDL_IMG") /\ UNCHANGED resVars

\* SDLTTF::SDLTTF(): TTF_Init() < 0 throws.
SDLTTF_ctor ==
    \E r \in IntResults, e \in ErrTexts :
        /\ IF r < 0
           THEN GuardFailed("TTF", "SDLTTF", r,
                    RuntimeError("Can't init TTF! TTF_Error: ", e), e)
           ELSE GuardConstructed("TTF", "SDLTTF", r)
        /\ UNCHANGED resVars

SDLTTF_dtor == GuardDestroyed("TTF", "~SDLTTF") /\ UNCHANGED resVars

NextGuard ==
    \/ SDL_ctor \/ SDL_dtor
    \/ SDL_IMG_ctor \/ SDL_IMG_dtor
    \/ SDLTTF_ctor \/ SDLTTF_dtor

SpecGuard == Init /\ [][NextGuard]_vars

\* --------------------------------------------------------- wrapper objects
Obj(ty, h) == [type |-> ty, h |-> h]
Live == BagToSet(objs)
Of(ty) == {o \in Live : o.type = ty}
HasRoom == BagCardinality(objs) < MaxSlots
Owners(h) == {o \in Live : o.h = h}
OwnerCount(h) == IF Owners(h) = {} THEN 0
                 ELSE BagCardinality([o \in Owners(h) |-> CopiesIn(o, objs)])

\* --------------------------------------------------------- native library
\* What a creating native call (SDL_LoadBMP, SDL_CreateWindow, TTF_OpenFont, ...)
\* can return: nullptr, or a handle it has not handed out before.
NativeCreate == {Null} \cup (IF handed < MaxHandles THEN {handed + 1} ELSE {})

\* What a caller can pass to a constructor taking a raw pointer of class ty, which
\* stores it untested: nullptr, a handle fresh from a native call of the caller's
\* own, a handle a live wrapper of the class already holds, or a stale one (already
\* released and held by no wrapper of another class).
RawPointer(ty) ==
    NativeCreate
        \cup {o.h : o \in Of(ty)}
        \cup {h \in 1..handed : rel[h] > 0 /\ Owners(h) \subseteq Of(ty)}

\* The same for a native call that works on handles it is given: with a nullptr
\* among them it reports failure (the one outcome in which such a call returns).
NativeCreateOn(hs) == IF Null \in hs THEN {Null} ELSE NativeCreate

\* What an int-returning native call given the handles hs can report.
NativeIntOn(hs) == IF Null \in hs THEN {-1} ELSE IntResults

\* SDL_GetWindowSurface(w): the surface the library keeps for the window, the same
\* one at every call; created at the first call.
NativeWindowSurface(w) ==
    IF w = Null THEN {Null}
    ELSE IF winSurf[w] # Null THEN {winSurf[w]}
    ELSE NativeCreate

HandedAfter(h) == IF h > handed THEN h ELSE handed

\* ------------------------------------------------- unique_ptr and its Deleter
\* Deleter::operator()(t): the handles passed to the native release routine.
Deleter(t) == IF t = Null THEN {} ELSE {t}

\* Variant of UniquePtrRelease that hands the stored pointer to the release
\* routine without looking at it.
UniquePtrRelease_Unchecked(t) == {t}

\* Destroying (or resetting) the std::unique_ptr<T, Deleter> member holding t:
\* the deleter is invoked only for a stored pointer that is not nullptr.
UniquePtrRelease(t) == IF t = Null THEN {} ELSE Deleter(t)

\* rel after the unique_ptr holding t is destroyed.
RelAfter(t) ==
    [h \in 0..MaxHandles |-> IF h \in UniquePtrRelease(t) THEN rel[h] + 1 ELSE rel[h]]

\* ----------------------------------------------------------- constructors
\* T(T_native* p) : m_p(p) {}  -- the wrapper takes p as it is, nullptr included.
Construct(op, ty, h) ==
    /\ HasRoom
    /\ objs' = objs (+) SetToBag({Obj(ty, h)})
    /\ handed' = HandedAfter(h)
    /\ last' = Returned(op, h, Obj(ty, h), "none")

\* return T(p): a call whose only effect is the wrapper it returns.
Wrap(op, ty, h) == Construct(op, ty, h) /\ UNCHANGED <<rel, locked, winSurf>>

\* A factory that tests the native result: nullptr throws, and nothing is built.
CheckedFactory(op, ty, h, desc, e) ==
    IF h = Null
    THEN /\ last' = Thrown(op, h, RuntimeError(desc, e), e)
         /\ UNCHANGED resVars
    ELSE Wrap(op, ty, h)

\* A constructor that default-constructs the unique_ptr member, reset()s it to
\* the native result and throws on nullptr: the member is destroyed on the throw.
ResetFactory(op, ty, h, desc, e) ==
    IF h = Null
    THEN /\ last' = Thrown(op, h, RuntimeError(desc, e), e)
         /\ rel' = RelAfter(h)
         /\ UNCHANGED <<objs, handed, locked, winSurf>>
    ELSE Wrap(op, ty, h)

\* ------------------------------------------------------------------- fonts
\* Variant of SDLTTF_open as a static function, callable with no guard object.
SDLTTF_open_static ==
    /\ \E h \in NativeCreate, e \in ErrTexts :
           CheckedFactory("SDLTTF::open", "Font", h, "Could not load font! TTF_Error: ", e)
    /\ UNCHANGED guardVars

\* SDLTTF::open, a member of the guard: callable only on a constructed guard.
SDLTTF_open ==
    /\ alive["TTF"] > 0
    /\ \E h \in NativeCreate, e \in ErrTexts :
           CheckedFactory("SDLTTF::open", "Font", h, "Could not load font! TTF_Error: ", e)
    /\ UNCHANGED guardVars

\* TTFFont(TTF_Font*): stores the pointer it is given, whatever it is (the same
\* holds for the other constructors from a raw pointer).
TTFFont_ctor ==
    /\ \E h \in RawPointer("Font") : Wrap("TTFFont", "Font", h)
    /\ UNCHANGED guardVars

\* TTFFont::render_glyph_solid / render_glyph_blended
RenderGlyph(op) ==
    /\ \E f \in Of("Font") :
          \E h \in NativeCreateOn({f.h}), e \in ErrTexts :
              CheckedFactory(op, "Surface", h, "Failure in glyph render! TTF_Error: ", e)
    /\ UNCHANGED guardVars

render_glyph_solid == RenderGlyph("TTFFont::render_glyph_solid")
render_glyph_blended == RenderGlyph("TTFFont::render_glyph_blended")

\* What TTF_GlyphMetrics can report: 0 on success, -1 on failure; 1 stands for any
\* other non-negative result. A call on nullptr fails.
GlyphResults(f) == IF f = Null THEN {-1} ELSE {-1, 0, 1}

\* The metrics of the glyphs the native library knows, by name.
GlyphSamples ==
    { [minx |-> 1, maxx |-> 9, miny |-> 0, maxy |-> 12, advance |-> 10],
      [minx |-> 0, maxx |-> 5, miny |-> -2, maxy |-> 7, advance |-> 6] }

\* TTF_GlyphMetrics(font, ch, int *minx, int *maxx, int *miny, int *maxy,
\* int *advance): the values the native call writes, in the order of its output
\* parameters.
NativeGlyphOut(g) == <<g.minx, g.maxx, g.miny, g.maxy, g.advance>>

\* struct GlyphMetrics after the call: the wrapper passes &metrics.minx,
\* &metrics.maxx, &metrics.miny, &metrics.maxy, &metrics.advance, in this order.
GlyphMetrics(w) ==
    [minx |-> w[1], maxx |-> w[2], miny |-> w[3], maxy |-> w[4], advance |-> w[5]]

\* Variant of glyph_metrics that treats every non-zero result as a failure.
glyph_metrics_NonZero ==
    /\ \E f \in Of("Font") :
          \E r \in GlyphResults(f.h), g \in GlyphSamples, e \in ErrTexts :
              last' = IF r # 0
                      THEN Thrown("TTFFont::glyph_metrics", r,
                                  RuntimeError("Could not get metrics! TTF_Error: ", e), e)
                      ELSE [Returned("TTFFont::glyph_metrics", r, f,
                                     GlyphMetrics(NativeGlyphOut(g)))
                            EXCEPT !.out = NativeGlyphOut(g)]
    /\ UNCHANGED resVars
    /\ UNCHANGED guardVars

\* TTFFont::glyph_metrics: throws when the native call returned < 0, returns the
\* struct the native call filled otherwise.
glyph_metrics ==
    /\ \E f \in Of("Font") :
          \E r \in GlyphResults(f.h), g \in GlyphSamples, e \in ErrTexts :
              last' = IF r < 0
                      THEN Thrown("TTFFont::glyph_metrics", r,
                                  RuntimeError("Could not get metrics! TTF_Error: ", e), e)
                      ELSE [Returned("TTFFont::glyph_metrics", r, f,
                                     GlyphMetrics(NativeGlyphOut(g)))
                            EXCEPT !.out = NativeGlyphOut(g)]
    /\ UNCHANGED resVars
    /\ UNCHANGED guardVars

\* ---------------------------------------------------------------- surfaces
SDLSurface_ctor_raw ==
    /\ \E h \in RawPointer("Surface") : Wrap("SDLSurface(raw)", "Surface", h)
    /\ UNCHANGED guardVars

\* SDLSurface(flags, width, height, depth, masks)
SDLSurface_ctor ==
    /\ \E h \in NativeCreate, e \in ErrTexts :
           ResetFactory("SDLSurface", "Surface", h,
                        "SDL_CreateRGBSurface failed! SDL_Error: ", e)
    /\ UNCHANGED guardVars

from_bmp ==
    /\ \E h \in NativeCreate, e \in ErrTexts :
           CheckedFactory("SDLSurface::from_bmp", "Surface", h,
                          "SDL_LoadBMP failed! SDL_Error: ", e)
    /\ UNCHANGED guardVars

from_image ==
    /\ \E h \in NativeCreate, e \in ErrTexts :
           CheckedFactory("SDLSurface::from_image", "Surface", h,
                          "IMG_Load failed! IMG_Error: ", e)
    /\ UNCHANGED guardVars

\* A method that forwards to an int-returning native call and drops the result.
Unchecked(op, hs) ==
    /\ \E r \in NativeIntOn(hs) : last' = Returned(op, r, NoObj, "none")
    /\ UNCHANGED resVars
    /\ UNCHANGED guardVars

\* A method that forwards to an int-returning native call and throws on r < 0.
CheckedNegative(op, hs, desc) ==
    /\ \E r \in NativeIntOn(hs), e \in ErrTexts :
          last' = IF r < 0 THEN Thrown(op, r, RuntimeError(desc, e), e)
                  ELSE Returned(op, r, NoObj, "none")
    /\ UNCHANGED resVars
    /\ UNCHANGED guardVars

blit_to ==
    \E s \in Of("Surface"), d \in Of("Surface") :
        Unchecked("SDLSurface::blit_to", {s.h, d.h})

\* SDL_LockSurface(s): 0 and the surface's lock counter raised, or -1.
NativeLock(s, r) ==
    /\ r \in NativeIntOn({s})
    /\ r = 0 => locked[s] < MaxLockDepth
    /\ locked' = IF r = 0 THEN [locked EXCEPT ![s] = @ + 1] ELSE locked

\* SDL_UnlockSurface(s): lowers the lock counter of a locked surface.
NativeUnlock(s) ==
    locked' = IF s # Null /\ locked[s] > 0 THEN [locked EXCEPT ![s] = @ - 1] ELSE locked

lock ==
    /\ \E s \in Of("Surface"), r \in IntResults, e \in ErrTexts :
          /\ NativeLock(s.h, r)
          /\ last' = IF r # 0
                     THEN Thrown("SDLSurface::lock", r,
                              RuntimeError("SDL_LockSurface failed! SDL_Error: ", e), e)
                     ELSE Returned("SDLSurface::lock", r, s, "none")
    /\ UNCHANGED <<objs, handed, rel, winSurf>>
    /\ UNCHANGED guardVars

\* Variant of try_lock with the comparison inverted.
try_lock_Inverted ==
    /\ \E s \in Of("Surface"), r \in IntResults :
          /\ NativeLock(s.h, r)
          /\ last' = Returned("SDLSurface::try_lock", r, s,
                              IF r # 0 THEN "true" ELSE "false")
    /\ UNCHANGED <<objs, handed, rel, winSurf>>
    /\ UNCHANGED guardVars

try_lock ==
    /\ \E s \in Of("Surface"), r \in IntResults :
          /\ NativeLock(s.h, r)
          /\ last' = Returned("SDLSurface::try_lock", r, s,
                              IF r = 0 THEN "true" ELSE "false")
    /\ UNCHANGED <<objs, handed, rel, winSurf>>
    /\ UNCHANGED guardVars

\* Variant of unlock that calls the locking primitive instead of the unlocking one.
unlock_Relocks ==
    /\ \E s \in Of("Surface"), r \in IntResults :
          /\ NativeLock(s.h, r)
          /\ last' = Returned("SDLSurface::unlock", 0, s, "none")
    /\ UNCHANGED <<objs, handed, rel, winSurf>>
    /\ UNCHANGED guardVars

\* SDLSurface::unlock: forwards to SDL_UnlockSurface whatever the lock state.
unlock ==
    /\ \E s \in Of("Surface") :
          /\ NativeUnlock(s.h)
          /\ last' = Returned("SDLSurface::unlock", 0, s, "none")
    /\ UNCHANGED <<objs, handed, rel, winSurf>>
    /\ UNCHANGED guardVars

\* ---------------------------------------------------------------- textures
SDLTexture_ctor ==
    /\ \E h \in RawPointer("Texture") : Wrap("SDLTexture", "Texture", h)
    /\ UNCHANGED guardVars

query == \E t \in Of("Texture") : Unchecked("SDLTexture::query", {t.h})

\* --------------------------------------------------------------- renderers
SDLRenderer_ctor ==
    /\ \E h \in RawPointer("Renderer") : Wrap("SDLRenderer", "Renderer", h)
    /\ UNCHANGED guardVars

\* A renderer method taking only plain arguments.
OnRenderer(op) == \E r \in Of("Renderer") : Unchecked(op, {r.h})

\* A renderer method that needs a texture as well (SDL_RenderCopy fails on nullptr).
OnRendererAndTexture(op) ==
    \E r \in Of("Renderer"), t \in Of("Texture") : Unchecked(op, {r.h, t.h})

clear == OnRenderer("SDLRenderer::clear")
set_logical_size == OnRenderer("SDLRenderer::set_logical_size")
set_draw_color == OnRenderer("SDLRenderer::set_draw_color")
draw_line == OnRenderer("SDLRenderer::draw_line")
draw_rect == OnRenderer("SDLRenderer::draw_rect")
reset_render_target == OnRenderer("SDLRenderer::reset_render_target")
\* SDL_SetRenderTarget(renderer, texture): a nullptr texture is a valid argument
\* (it selects the default target), so only the renderer decides what can come back.
set_render_target ==
    \E r \in Of("Renderer"), t \in Of("Texture") :
        Unchecked("SDLRenderer::set_render_target", {r.h})
draw_texture == OnRendererAndTexture("SDLRenderer::draw_texture")

\* SDL_RenderPresent returns void.
present ==
    /\ Of("Renderer") # {}
    /\ last' = Returned("SDLRenderer::present", 0, NoObj, "none")
    /\ UNCHANGED resVars
    /\ UNCHANGED guardVars

set_viewport ==
    \E r \in Of("Renderer") :
        CheckedNegative("SDLRenderer::set_viewport", {r.h},
                        "Could'nt set viewport! SDL_Error: ")

create_texture ==
    /\ \E r \in Of("Renderer") :
          \E h \in NativeCreateOn({r.h}) :
              Wrap("SDLRenderer::create_texture", "Texture", h)
    /\ UNCHANGED guardVars

create_texture_from_surface ==
    /\ \E r \in Of("Renderer"), s \in Of("Surface") :
          \E h \in NativeCreateOn({r.h, s.h}) :
              Wrap("SDLRenderer::create_texture_from_surface", "Texture", h)
    /\ UNCHANGED guardVars

\* ----------------------------------------------------------------- windows
SDLWindow_ctor ==
    /\ \E h \in NativeCreate, e \in ErrTexts :
           ResetFactory("SDLWindow", "Window", h,
                        "Window could not be created! SDL_Error: ", e)
    /\ UNCHANGED guardVars

get_surface ==
    /\ \E w \in Of("Window") :
          \E h \in NativeWindowSurface(w.h) :
              /\ Construct("SDLWindow::get_surface", "Surface", h)
              /\ winSurf' = IF h # Null THEN [winSurf EXCEPT ![w.h] = h] ELSE winSurf
    /\ UNCHANGED <<rel, locked>>
    /\ UNCHANGED guardVars

update_surface == \E w \in Of("Window") : Unchecked("SDLWindow::update_surface", {w.h})

create_renderer ==
    /\ \E w \in Of("Window") :
          \E h \in NativeCreateOn({w.h}) :
              Wrap("SDLWindow::create_renderer", "Renderer", h)
    /\ UNCHANGED guardVars

\* ------------------------------------------------------ move and destruction
\* The types that declare T(T&&) = default.  SDLSurface and TTFFont declare a
\* private copy constructor and no move constructor: they cannot be moved.
HasMoveConstructor(ty) == ty \in {"Texture", "Renderer", "Window"}

\* The unique_ptr member after it was moved from: nullptr.
MovedFrom(o) == Obj(o.type, Null)

\* T dst(std::move(src)): dst takes the pointer, src keeps what a moved-from
\* unique_ptr holds.
MoveConstruct ==
    /\ \E src \in Live :
          /\ HasMoveConstructor(src.type)
          /\ HasRoom
          /\ objs' = ((objs (-) SetToBag({src})) (+) SetToBag({MovedFrom(src)}))
                         (+) SetToBag({src})
          /\ last' = Returned("move", src.h, src, "none")
    /\ UNCHANGED <<handed, rel, locked, winSurf>>
    /\ UNCHANGED guardVars

\* The classes that declare T& operator=(T&&) = default.
HasMoveAssignment(ty) == ty \in {"Texture", "Renderer", "Window"}

\* The wrappers after dst = std::move(src) on two objects: dst holds what src
\* held, src holds nullptr.
Assigned(dst, src) ==
    ((objs (-) SetToBag({dst})) (-) SetToBag({src}))
        (+) SetToBag({Obj(dst.type, src.h)}) (+) SetToBag({MovedFrom(src)})

\* dst = std::move(src), the defaulted move assignment: the unique_ptr member does
\* reset(src.release()), so the pointer dst held goes to the deleter, dst takes
\* the pointer of src and src is left with nullptr. On one and the same object
\* (self) release() and reset() cancel out and nothing is released.
MoveAssign ==
    /\ \E dst \in Live, src \in Live, self \in BOOLEAN :
          /\ HasMoveAssignment(dst.type)
          /\ src.type = dst.type
          /\ IF self
             THEN /\ src = dst
                  /\ last' = Returned("move_assign", src.h, dst, "self")
                  /\ UNCHANGED <<objs, rel>>
             ELSE /\ src # dst \/ CopiesIn(dst, objs) >= 2
                  /\ rel[dst.h] < MaxRelease
                  /\ objs' = Assigned(dst, src)
                  /\ rel' = RelAfter(dst.h)
                  /\ last' = [Returned("move_assign", src.h, Obj(dst.type, src.h),
                                       "none")
                              EXCEPT !.out = <<dst.h>>]
    /\ UNCHANGED <<handed, locked, winSurf>>
    /\ UNCHANGED guardVars

\* ~T() = default: the unique_ptr member is destroyed.
Destroy ==
    /\ \E o \in Live :
          /\ rel[o.h] < MaxRelease
          /\ objs' = objs (-) SetToBag({o})
          /\ rel' = RelAfter(o.h)
          /\ last' = Returned("destroy", o.h, o, "none")
    /\ UNCHANGED <<handed, locked, winSurf>>
    /\ UNCHANGED guardVars

NextRes ==
    \/ SDLTTF_open \/ TTFFont_ctor \/ render_glyph_solid \/ render_glyph_blended
    \/ glyph_metrics
    \/ SDLSurface_ctor_raw \/ SDLSurface_ctor \/ from_bmp \/ from_image
    \/ blit_to \/ lock \/ try_lock \/ unlock
    \/ SDLTexture_ctor \/ query
    \/ SDLRenderer_ctor \/ clear \/ present \/ create_texture
    \/ create_texture_from_surface \/ set_logical_size \/ set_draw_color
    \/ draw_line \/ draw_rect \/ set_viewport \/ set_render_target
    \/ reset_render_target \/ draw_texture
    \/ SDLWindow_ctor \/ get_surface \/ update_surface \/ create_renderer
    \/ MoveConstruct \/ MoveAssign \/ Destroy

\* The wrappers, with the one guard a factory is a member of.
Next == NextRes \/ SDLTTF_ctor \/ SDLTTF_dtor

Spec == Init /\ [][Next]_vars

\* Creation and ownership: every constructor and factory, both moves and
\* destruction.
NextCreate ==
    \/ SDLTTF_ctor \/ SDLTTF_open \/ TTFFont_ctor
    \/ render_glyph_solid \/ render_glyph_blended
    \/ SDLSurface_ctor_raw \/ SDLSurface_ctor \/ from_bmp \/ from_image
    \/ SDLTexture_ctor \/ SDLRenderer_ctor
    \/ create_texture \/ create_texture_from_surface
    \/ SDLWindow_ctor \/ get_surface \/ create_renderer
    \/ MoveConstruct \/ MoveAssign \/ Destroy

SpecCreate == Init /\ [][NextCreate]_vars

\* The methods that forward one native call, on receivers built from raw
\* pointers or by the window constructor.
NextForward ==
    \/ SDLSurface_ctor_raw \/ SDLTexture_ctor \/ SDLRenderer_ctor \/ SDLWindow_ctor
    \/ blit_to \/ query \/ clear \/ present \/ set_logical_size \/ set_draw_color
    \/ draw_line \/ draw_rect \/ set_viewport \/ set_render_target
    \/ reset_render_target \/ draw_texture \/ update_surface
    \/ Destroy

SpecForward == Init /\ [][NextForward]_vars

\* Ownership alone: calls after which a wrapper can hold nullptr (TTFFont from a
\* raw pointer, which can also be one that is already held or already released;
\* the renderer and texture factories that do not test the native result; a
\* moved-from window), the two constructors that throw after reset(), and
\* destruction.
NextOwn ==
    \/ TTFFont_ctor
    \/ SDLSurface_ctor \/ SDLWindow_ctor
    \/ create_renderer \/ create_texture
    \/ MoveConstruct \/ Destroy

SpecOwn == Init /\ [][NextOwn]_vars

\* Surfaces and their lock methods: the SDLSurface constructors and static
\* factories and the three lock methods, on surfaces that stay alive.
NextSurface ==
    \/ SDLSurface_ctor_raw \/ SDLSurface_ctor \/ from_bmp \/ from_image
    \/ lock \/ try_lock \/ unlock

SpecSurface == Init /\ [][NextSurface]_vars

\* The methods that throw, with the factories that build their receivers.
NextThrow ==
    \/ SDLTTF_ctor \/ SDLTTF_open \/ render_glyph_solid \/ render_glyph_blended
    \/ glyph_metrics
    \/ SDLSurface_ctor \/ from_bmp \/ from_image
    \/ SDLWindow_ctor \/ create_renderer
    \/ lock \/ unlock \/ set_viewport \/ Destroy

SpecThrow == Init /\ [][NextThrow]_vars

\* Guards together with the factories of each subsystem that need no receiver
\* object: SDL_LoadBMP (core), IMG_Load (image), TTF_OpenFont (font).
NextLife == NextGuard \/ from_bmp \/ from_image \/ SDLTTF_open \/ Destroy

SpecLife == Init /\ [][NextLife]_vars

\* Fonts: a TTFFont around any pointer, glyph metrics and destruction.
NextFont == TTFFont_ctor \/ glyph_metrics \/ Destroy

SpecFont == Init /\ [][NextFont]_vars

\* The classes with a move assignment: their constructors and factories, both
\* moves and destruction.
NextMove ==
    \/ SDLTexture_ctor \/ SDLRenderer_ctor \/ SDLWindow_ctor
    \/ create_texture \/ create_renderer
    \/ MoveConstruct \/ MoveAssign \/ Destroy

SpecMove == Init /\ [][NextMove]_vars

\* ================================================================== claims
FactoryOps ==
    {"SDLTTF::open", "SDLSurface::from_bmp", "SDLSurface::from_image", "SDLSurface",
     "SDLWindow", "SDLRenderer::create_texture",
     "SDLRenderer::create_texture_from_surface", "SDLWindow::create_renderer",
     "SDLWindow::get_surface", "TTFFont::render_glyph_solid",
     "TTFFont::render_glyph_blended"}

ForwardOps ==
    {"SDLSurface::blit_to", "SDLTexture::query", "SDLRenderer::clear",
     "SDLRenderer::set_logical_size", "SDLRenderer::set_draw_color",
     "SDLRenderer::draw_line", "SDLRenderer::draw_rect", "SDLRenderer::set_viewport",
     "SDLRenderer::set_render_target", "SDLRenderer::reset_render_target",
     "SDLRenderer::draw_texture", "SDLWindow::update_surface"}

GuardOps == {"SDL", "SDL_IMG", "SDLTTF"}

\* C1: after any resource-factory call, a non-null native result means the call
\* returned a live wrapper holding exactly that handle, and a null native result
\* means the call threw and returned no wrapper.
C1_FactoryContract ==
    last.op \in FactoryOps =>
        IF last.nret # Null
        THEN last.status = "ok" /\ last.obj.h = last.nret /\ BagIn(last.obj, objs)
        ELSE last.status = "throw" /\ last.obj = NoObj

\* C2: every native handle that was handed out and not yet released is held by
\* exactly one wrapper object, and no handle is passed to its release routine
\* more than once.
C2_ExclusiveOwnership ==
    \A h \in Handles :
        /\ (h <= handed /\ rel[h] = 0) => OwnerCount(h) = 1
        /\ rel[h] <= 1

\* C3: every owned-wrapper type can be move-constructed, and after a
\* move-construction the source holds nullptr while the moved handle has one owner.
C3_MoveEveryOwnedType ==
    /\ \A o \in Live : HasMoveConstructor(o.type)
    /\ last.op = "move" =>
          /\ BagIn(Obj(last.obj.type, Null), objs)
          /\ last.nret # Null => OwnerCount(last.nret) = 1

\* C4: for each guard, the shutdown calls made equal the successfully constructed
\* guards that have been destroyed: a failed init is never followed by a shutdown
\* call for it, a successful one by exactly one when the guard is destroyed.
C4_GuardLifecycle ==
    \A g \in Subsys : quits[g] + alive[g] = inits[g]

\* C4 witness: a guard was constructed and destroyed (one shutdown call), and a
\* later construction of the same guard failed without another shutdown call.
C4_Witness ==
    /\ last.op = "SDL_IMG" /\ last.status = "throw"
    /\ inits["IMG"] = 1 /\ alive["IMG"] = 0 /\ quits["IMG"] = 1

\* C5: no forwarding method returns normally when the native call it forwarded
\* reported failure.
C5_FailureRaised ==
    (last.op \in ForwardOps /\ last.nret < 0) => last.status = "throw"

\* C6: destroying a wrapper that holds nullptr, and a throw out of the SDLSurface
\* parameter constructor or the SDLWindow constructor, make no release call.
C6_NullNeverReleased ==
    [][ (\/ last'.op = "destroy" /\ last'.nret = Null
         \/ last'.op \in {"SDLSurface", "SDLWindow"} /\ last'.status = "throw")
        => rel' = rel ]_vars

\* C6 witness: a wrapper built around nullptr has just been destroyed, no release
\* call having ever been made.
C6_Witness ==
    /\ last.op = "destroy" /\ last.nret = Null /\ last.obj.type = "Font"
    /\ \A h \in 0..MaxHandles : rel[h] = 0

\* C7: try_lock never throws, returns false when the native lock call fails and
\* true with the surface locked when it succeeds; lock throws when the native
\* call fails and returns with the surface locked when it succeeds.
C7_LockContract ==
    /\ last.op = "SDLSurface::try_lock" =>
          /\ last.status = "ok"
          /\ last.nret # 0 => last.val = "false"
          /\ last.nret = 0 => last.val = "true" /\ locked[last.obj.h] >= 1
    /\ last.op = "SDLSurface::lock" =>
          /\ last.nret # 0 => last.status = "throw"
          /\ last.nret = 0 => last.status = "ok" /\ locked[last.obj.h] >= 1

\* C7 witness: try_lock has just returned false on a surface with a live handle
\* whose native lock call failed.
C7_Witness ==
    /\ last.op = "SDLSurface::try_lock" /\ last.nret = -1 /\ last.val = "false"
    /\ last.obj.h # Null /\ locked[last.obj.h] = 0

\* The fixed descriptions the guards use.
GuardDescription(op) ==
    CASE op = "SDL" -> "SDL uninitialized"
      [] op = "SDL_IMG" -> "IMG_Init failed! IMG_GetError: "
      [] op = "SDLTTF" -> "Can't init TTF! TTF_Error: "

\* C8: a guard constructor that fails throws an error whose message carries the
\* subsystem's last-error text.
C8_GuardErrorCarriesLastError ==
    (last.op \in GuardOps /\ last.status = "throw")
        => last.msg = GuardDescription(last.op) \o last.err

\* C9 (as stated): a resource of a subsystem is created only while that
\* subsystem's guard is alive, and is alive only while the guard is.
C9_GuardOutlivesResources ==
    /\ (last.op = "SDLSurface::from_bmp" /\ last.status = "ok") => alive["SDL"] > 0
    /\ (last.op = "SDLSurface::from_image" /\ last.status = "ok") => alive["IMG"] > 0
    /\ (last.op = "SDLTTF::open" /\ last.status = "ok") => alive["TTF"] > 0
    /\ \A o \in Of("Font") : o.h # Null => alive["TTF"] > 0
    /\ \A o \in Of("Surface") : o.h # Null => alive["SDL"] > 0

\* C9 (amended): a font is opened through SDLTTF::open only while an SDLTTF guard
\* is alive.
C9_FontOpenedUnderGuard ==
    last.op = "SDLTTF::open" => alive["TTF"] > 0

\* C9 witness: a font has just been opened, its guard alive.
C9_Witness ==
    /\ last.op = "SDLTTF::open" /\ last.status = "ok"
    /\ BagIn(last.obj, objs) /\ alive["TTF"] = 1

\* The fixed description each throwing factory or operation uses.
Description(op) ==
    CASE op = "SDLTTF::open" -> "Could not load font! TTF_Error: "
      [] op \in {"TTFFont::render_glyph_solid", "TTFFont::render_glyph_blended"}
            -> "Failure in glyph render! TTF_Error: "
      [] op = "TTFFont::glyph_metrics" -> "Could not get metrics! TTF_Error: "
      [] op = "SDLSurface" -> "SDL_CreateRGBSurface failed! SDL_Error: "
      [] op = "SDLSurface::from_bmp" -> "SDL_LoadBMP failed! SDL_Error: "
      [] op = "SDLSurface::from_image" -> "IMG_Load failed! IMG_Error: "
      [] op = "SDLSurface::lock" -> "SDL_LockSurface failed! SDL_Error: "
      [] op = "SDLRenderer::set_viewport" -> "Could'nt set viewport! SDL_Error: "
      [] op = "SDLWindow" -> "Window could not be created! SDL_Error: "

\* C10: the message of every error thrown by a factory or operation is its fixed
\* description followed by the library's last-error text.
C10_ErrorMessage ==
    (last.status = "throw" /\ last.op \notin GuardOps)
        => last.msg = Description(last.op) \o last.err

\* C10 witness: SDLTTF::open has just failed with last-error "file not found".
C10_Witness ==
    /\ last.op = "SDLTTF::open" /\ last.status = "throw" /\ last.nret = Null
    /\ last.err = "file not found"
    /\ last.msg = "Could not load font! TTF_Error: file not found"

\* ------------------------------------------------------------------- C11
\* C11: TTFFont::glyph_metrics returns, when the native call reported a
\* non-negative result, a GlyphMetrics whose minx, maxx, miny, maxy and advance are
\* the five values the native call wrote, field for field; when the native call
\* reported a negative result it throws and returns no metrics.
C11_GlyphMetrics ==
    last.op = "TTFFont::glyph_metrics" =>
        /\ last.nret >= 0 =>
              /\ last.status = "ok"
              /\ last.val.minx = last.out[1]
              /\ last.val.maxx = last.out[2]
              /\ last.val.miny = last.out[3]
              /\ last.val.maxy = last.out[4]
              /\ last.val.advance = last.out[5]
        /\ last.nret < 0 =>
              /\ last.status = "throw"
              /\ last.val = "none"

\* C11 witness: the native call wrote 1, 9, 0, 12, 10 and reported a positive
\* result, and glyph_metrics returned them.
C11_Witness ==
    /\ last.op = "TTFFont::glyph_metrics"
    /\ last.nret = 1
    /\ last.status = "ok"
    /\ last.out = <<1, 9, 0, 12, 10>>
    /\ last.val = [minx |-> 1, maxx |-> 9, miny |-> 0, maxy |-> 12, advance |-> 10]

\* ------------------------------------------------------------------- C12
\* C12 as stated: over any sequence of lock, try_lock and unlock calls on one
\* SDLSurface, the surface is never acquired a second time without an unlock in
\* between, and unlock is never performed on a surface that is not locked.
C12_LockDiscipline ==
    [][\A h \in Handles :
          /\ locked'[h] > locked[h] => locked[h] = 0
          /\ (last'.op = "SDLSurface::unlock" /\ last'.obj.h = h) => locked[h] > 0]_vars

\* C12 as the code has it: the three methods forward every call, in any order. The
\* lock count of a surface rises only at a lock that returned or a try_lock that
\* returned true, each on a native result of 0 for that surface, and then by one,
\* and every such call raises it; it falls only at an unlock of that surface, by
\* one; an unlock of a surface that is not locked leaves it not locked.
C12_LockForwarded ==
    [][\A h \in Handles :
          /\ locked'[h] > locked[h] =>
                /\ locked'[h] = locked[h] + 1
                /\ last'.obj.h = h
                /\ last'.nret = 0
                /\ \/ last'.op = "SDLSurface::lock" /\ last'.status = "ok"
                   \/ last'.op = "SDLSurface::try_lock" /\ last'.val = "true"
          /\ ( /\ last'.op \in {"SDLSurface::lock", "SDLSurface::try_lock"}
               /\ last'.status = "ok" /\ last'.nret = 0 /\ last'.obj.h = h )
                => locked'[h] = locked[h] + 1
          /\ locked'[h] < locked[h] =>
                /\ locked'[h] = locked[h] - 1
                /\ last'.op = "SDLSurface::unlock"
                /\ last'.obj.h = h
          /\ (last'.op = "SDLSurface::unlock" /\ last'.obj.h = h /\ locked[h] = 0)
                => locked'[h] = 0]_vars

\* C12 witness: lock has just returned on a surface that was already locked, so
\* the surface is acquired twice with no unlock in between.
C12_Witness ==
    /\ last.op = "SDLSurface::lock"
    /\ last.status = "ok"
    /\ last.obj.h # Null
    /\ locked[last.obj.h] = 2

\* ------------------------------------------------------------------- C13
\* C13: move assignment of an SDLTexture, SDLRenderer or SDLWindow onto another
\* object of the class that owns a handle releases that handle exactly once at the
\* assignment, gives the destination the handle of the source and leaves the
\* source with nullptr. Right after the assignment the replaced handle is
\* released once and held by no object, and the transferred handle is unreleased
\* and held by the destination alone, so that once both objects are destroyed
\* every handle involved was released exactly once.
C13_MoveAssignment ==
    (last.op = "move_assign" /\ last.val # "self") =>
        /\ last.obj.h = last.nret
        /\ BagIn(last.obj, objs)
        /\ BagIn(Obj(last.obj.type, Null), objs)
        /\ last.nret # Null =>
              /\ OwnerCount(last.nret) = 1
              /\ rel[last.nret] = 0
        /\ last.out[1] # Null =>
              /\ OwnerCount(last.out[1]) = 0
              /\ rel[last.out[1]] = 1
====
